---- MODULE Spec2Model ----
(***************************************************************************)
(* Model of the calendar integration of schej.it:                          *)
(*   - getCalendar, the GET /user/calendar handler                          *)
(*     (src/server/routes/user.go), one process per request;               *)
(*   - the credential refresher it calls, db.RefreshUserTokenIfNecessary,   *)
(*     whose body is not among the sources and is modelled from spec.md    *)
(*     section 4.3;                                                         *)
(*   - GetCalendarProvider, the provider factory                            *)
(*     (src/server/services/calendar/types.go);                             *)
(*   - aggregateAvailability over a models.Response (src/unnamed/part_000), *)
(*     whose body is not among the sources and is modelled from spec.md    *)
(*     section 4.5.                                                         *)
(*                                                                         *)
(* Time is counted in ticks of half a millisecond, so that the truncation  *)
(* of primitive.NewDateTimeFromTime to milliseconds is visible.            *)
(***************************************************************************)
EXTENDS Integers, Sequences, FiniteSets, TLC

\* ------------------------------------------------------------------ bounds
NReq == 2          \* requests in flight at once
MaxTime == 3       \* instants are 0..MaxTime
MaxItems == 2      \* items in the provider's calendar
MaxCred == 3       \* distinct credential bundles of one provider type
DayEnd == 3        \* a day is the instants 0..DayEnd
MaxEvents == 1     \* events one sub-calendar returns for the day

\* ------------------------------------------------------- program constants
TicksPerMilli == 2        \* resolution of time.Time relative to primitive.DateTime
StatusOK == 200
StatusBadRequest == 400
StatusInternalServerError == 500

Req == 1..NReq
Time == 0..MaxTime
Summaries == {"mtg"}

VARIABLES
    \* --- the provider and the credential store
    calendar,       \* the items the provider holds for calendar "primary"
    credential,     \* the account's entry in the credential store
    inflight,       \* a refresh call is in flight for the account
    flightResult,   \* outcome of the last refresh call: "none", "ok", "AuthExpired"
    refreshCalls,   \* number of refresh calls issued to the provider
    \* --- one getCalendar invocation per request
    pc,             \* position of the handler
    query,          \* the request's query parameters
    session,        \* the request's session: its "accessToken" entry
    refreshResult,  \* what the refresher returned to the request
    tokenAfter,     \* the store's access token when the refresher returned
    sentToken,      \* the bearer token of the provider call (0: none sent)
    respKind,       \* what came back from the provider
    result,         \* what the handler wrote to the client
    \* --- one call of the provider factory
    account,        \* the models.CalendarAccount handed to GetCalendarProvider
    provider,       \* what GetCalendarProvider gave back (Pending: not called yet)
    \* --- one call of aggregateAvailability, for one respondent and one day
    response,       \* the respondent's models.Response
    fetched,        \* per sub-calendar, the outcome of the adapter's events call
    availability    \* what aggregateAvailability gave back

provVars == <<calendar, credential, inflight, flightResult, refreshCalls>>
reqVars == <<pc, query, session, refreshResult, tokenAfter, sentToken, respKind, result>>
factoryVars == <<account, provider>>
aggVars == <<response, fetched, availability>>
vars == <<provVars, reqVars, factoryVars, aggVars>>

\* ------------------------------------------------------------- data shapes
\* Item of user.go:110-114 as it arrives on the wire. dateTimeOk is FALSE when
\* a dateTime string of the item does not parse as RFC 3339.
RawItem == [summary : Summaries, start : Time, end : Time, dateTimeOk : BOOLEAN]

MalformedItem == [summary |-> "mtg", start |-> 0, end |-> 0, dateTimeOk |-> FALSE]

WireItems == {i \in RawItem : i.dateTimeOk} \cup {MalformedItem}

SeqsUpTo(S, n) == UNION {[1..k -> S] : k \in 0..n}

Calendars == SeqsUpTo(WireItems, MaxItems)

\* The payload struct of user.go:74-77. bound is FALSE when a parameter is
\* missing or is no timestamp, which makes c.Bind fail.
UnboundQuery == [timeMin |-> 0, timeMax |-> 0, bound |-> FALSE]

Queries == [timeMin : Time, timeMax : Time, bound : {TRUE}] \cup {UnboundQuery}

\* Nothing written yet. status: the HTTP status; events: the calendarEvents of
\* a 200 answer; echoed: the res.Items of the provider response that a 500
\* answer carries.
NoResult == [status |-> 0, events |-> <<>>, echoed |-> <<>>]

\* ------------------------------------------------------- pure functions
\* time.Time.Before, as used in user.go:136
BeforeInclusive(t, u) == t <= u

Before(t, u) == t < u

\* time.Time.After, as used in user.go:136
After(t, u) == t > u

\* primitive.NewDateTimeFromTime: milliseconds since the epoch, truncated
NewDateTimeFromTime(t) == t \div TicksPerMilli

\* models.CalendarEvent built at user.go:137-141
CalendarEvent(item) ==
    [summary   |-> item.summary,
     startDate |-> NewDateTimeFromTime(item.start),
     endDate   |-> NewDateTimeFromTime(item.end)]

\* The filter condition of user.go:136
InWindow(payload, item) ==
    Before(payload.timeMin, item.start) /\ After(payload.timeMax, item.end)

\* The loop of user.go:133-143 over res.Items, appending to calendarEvents
RECURSIVE FormatResponse(_, _, _)
FormatResponse(items, payload, calendarEvents) ==
    IF items = <<>>
    THEN calendarEvents
    ELSE FormatResponse(Tail(items), payload,
             IF InWindow(payload, Head(items))
             THEN Append(calendarEvents, CalendarEvent(Head(items)))
             ELSE calendarEvents)

\* json.NewDecoder(resp.Body).Decode(&res), user.go:121-124: the decode of the
\* whole body fails as soon as one dateTime of one item does not parse.
DecodeOk(items) == \A k \in 1..Len(items) : items[k].dateTimeOk

\* The Item values of a decoded body (user.go:110-114)
DecodedItems(items) ==
    [k \in 1..Len(items) |->
        [summary |-> items[k].summary, start |-> items[k].start, end |-> items[k].end]]

\* user.go:85: the handler calls the refresher as a statement; whatever the
\* refresher returned, the handler goes on to the provider call.
AfterRefresh(refreshed) == "call"

\* user.go:100: the bearer token is the session's "accessToken" entry
AccessTokenSent(r) == session[r]

\* ------------------------------------------------------ provider factory
\* A nil pointer
Nil == [nil |-> TRUE]

\* The nil CalendarProvider interface value
NilProvider == [kind |-> "nil"]

\* No call of the factory yet
Pending == [kind |-> "pending"]

\* models.GoogleCalendarType, models.AppleCalendarType and two types no case
\* of the switch names
GoogleCalendarType == "google"

AppleCalendarType == "apple"

CalendarTypes == {GoogleCalendarType, AppleCalendarType, "outlook", ""}

Bundles == [token : 1..MaxCred]

\* models.CalendarAccount as types.go reads it: the type and the two optional
\* credential bundles (pointers, Nil when absent)
CalendarAccounts ==
    [CalendarType : CalendarTypes,
     GoogleCalendarAuth : Bundles \cup {Nil},
     AppleCalendarAuth : Bundles \cup {Nil}]

\* Dereference of a pointer: a nil pointer dereference panics
Deref(p, kind) ==
    IF p = Nil THEN [kind |-> "panic"] ELSE [kind |-> kind, auth |-> p]

\* GetCalendarProvider, types.go:14-26
GetCalendarProviderSwapped(calendarAccount) ==
    CASE calendarAccount.CalendarType = GoogleCalendarType ->
             Deref(calendarAccount.AppleCalendarAuth, "AppleCalendar")
      [] calendarAccount.CalendarType = AppleCalendarType ->
             Deref(calendarAccount.GoogleCalendarAuth, "GoogleCalendar")
      [] OTHER -> NilProvider

GetCalendarProvider(calendarAccount) ==
    CASE calendarAccount.CalendarType = GoogleCalendarType ->
             Deref(calendarAccount.GoogleCalendarAuth, "GoogleCalendar")
      [] calendarAccount.CalendarType = AppleCalendarType ->
             Deref(calendarAccount.AppleCalendarAuth, "AppleCalendar")
      [] OTHER -> NilProvider

\* ------------------------------------------------ availability aggregator
\* The sub-calendars of the respondent's one linked identity, in the order
\* the aggregator visits them
CalendarOrder == <<"calA", "calB">>

SubCalendars == {CalendarOrder[k] : k \in 1..Len(CalendarOrder)}

\* A half-open interval [s, e) of instants, s < e: a busy event (a
\* CanonicalCalendarEvent, spec.md 3), working hours, or a free interval
Intervals == {iv \in [s : 0..DayEnd, e : 0..DayEnd] : iv.s < iv.e}

EventLists == SeqsUpTo(Intervals, MaxEvents)

\* models.CalendarOptions, part_000:72: working-hour bounds, when configured
NoCalendarOptions == [bounded |-> FALSE, s |-> 0, e |-> DayEnd]

CalendarOptions == {NoCalendarOptions} \cup {[bounded |-> TRUE, s |-> iv.s, e |-> iv.e] : iv \in Intervals}

\* models.Response, part_000:53-73, as far as the aggregator reads it. Manual
\* slots are present only when useCalendarAvailability is false (spec.md 3).
Responses ==
    {rsp \in [useCalendarAvailability : BOOLEAN,
              enabledCalendars : {{}, {"calA"}, {"calA", "calB"}},
              calendarOptions : CalendarOptions,
              manualAvailability : {<<>>, <<[s |-> 1, e |-> 2]>>}] :
        /\ rsp.useCalendarAvailability => rsp.manualAvailability = <<>>
        /\ ~rsp.useCalendarAvailability =>
              (rsp.enabledCalendars = {} /\ rsp.calendarOptions = NoCalendarOptions)}

NotFetched == [state |-> "pending", events |-> <<>>]

Failed == [state |-> "failed", events |-> <<>>]

NoAvailability ==
    [kind |-> "pending", available |-> <<>>, partial |-> FALSE, degradedCalendars |-> {}]

ProviderUnavailable ==
    [kind |-> "ProviderUnavailable", available |-> <<>>, partial |-> FALSE, degradedCalendars |-> {}]

\* The day's full span, or the working hours when configured (spec.md 4.5, 2)
Span(options) ==
    IF options.bounded THEN [s |-> options.s, e |-> options.e] ELSE [s |-> 0, e |-> DayEnd]

Min(a, b) == IF a < b THEN a ELSE b

Max(a, b) == IF a > b THEN a ELSE b

\* What is left of the free interval iv once the busy interval b is taken out
SubtractFromInterval(iv, b) ==
    (IF iv.s < b.s THEN <<[s |-> iv.s, e |-> Min(iv.e, b.s)]>> ELSE <<>>)
      \o (IF b.e < iv.e THEN <<[s |-> Max(iv.s, b.e), e |-> iv.e]>> ELSE <<>>)

\* An ordered list of free intervals with one busy interval taken out
RECURSIVE SubtractBusy(_, _)
SubtractBusy(free, b) ==
    IF free = <<>> THEN <<>>
    ELSE SubtractFromInterval(Head(free), b) \o SubtractBusy(Tail(free), b)

RECURSIVE SubtractAll(_, _)
SubtractAll(free, busy) ==
    IF busy = <<>> THEN free
    ELSE SubtractAll(SubtractBusy(free, Head(busy)), Tail(busy))

\* The sub-calendars whose adapter call failed
DegradedNone(enabled, got) == {}

Degraded(enabled, got) == {c \in enabled : got[c].state = "failed"}

\* The busy events of the enabled sub-calendars whose call succeeded
RECURSIVE BusyFirstOnly(_, _, _)
BusyFirstOnly(order, enabled, got) ==
    IF order = <<>> THEN <<>>
    ELSE IF Head(order) \in enabled /\ got[Head(order)].state = "ok"
         THEN got[Head(order)].events
         ELSE BusyFirstOnly(Tail(order), enabled, got)

RECURSIVE Busy(_, _, _)
Busy(order, enabled, got) ==
    IF order = <<>> THEN <<>>
    ELSE (IF Head(order) \in enabled /\ got[Head(order)].state = "ok"
          THEN got[Head(order)].events ELSE <<>>)
           \o Busy(Tail(order), enabled, got)

\* aggregateAvailability (spec.md 4.5 and 6) for one day
aggregateAvailability(rsp, got) ==
    IF ~rsp.useCalendarAvailability
    THEN [kind |-> "result", available |-> rsp.manualAvailability,
          partial |-> FALSE, degradedCalendars |-> {}]
    ELSE LET enabled == rsp.enabledCalendars
             degraded == Degraded(enabled, got)
         IN  IF enabled # {} /\ degraded = enabled
             THEN ProviderUnavailable
             ELSE [kind |-> "result",
                   available |-> SubtractAll(<<Span(rsp.calendarOptions)>>,
                                             Busy(CalendarOrder, enabled, got)),
                   partial |-> degraded # {},
                   degradedCalendars |-> degraded]

\* ---------------------------------------------------------------- Init
\* Sample data of the concurrent specification: an item strictly inside the
\* widest window, alone and followed by an item that does not decode.
InsideItem == [summary |-> "mtg", start |-> 1, end |-> MaxTime - 1, dateTimeOk |-> TRUE]

SampleCalendars == {<<InsideItem>>, <<InsideItem, MalformedItem>>}

SampleQueries == {[timeMin |-> 0, timeMax |-> MaxTime, bound |-> TRUE], UnboundQuery}

InitProvider(cals, expiry) ==
    /\ calendar \in cals
    /\ credential \in [token : {1}, expired : expiry, valid : {TRUE}]
    /\ inflight = FALSE
    /\ flightResult = "none"
    /\ refreshCalls = 0

InitRequests(active, queries, at) ==
    /\ pc = [r \in Req |-> IF r \in active THEN at ELSE "absent"]
    /\ \E f \in [active -> queries] :
          query = [r \in Req |-> IF r \in active THEN f[r] ELSE UnboundQuery]
    /\ session = [r \in Req |-> 1]   \* the access token stored at sign-in
    /\ refreshResult = [r \in Req |-> IF r \in active /\ at = "call" THEN "ok" ELSE "none"]
    /\ tokenAfter = [r \in Req |-> IF r \in active /\ at = "call" THEN 1 ELSE 0]
    /\ sentToken = [r \in Req |-> 0]
    /\ respKind = [r \in Req |-> "none"]
    /\ result = [r \in Req |-> NoResult]

\* No factory call is under way.
IdleFactory ==
    /\ account = [CalendarType |-> "", GoogleCalendarAuth |-> Nil, AppleCalendarAuth |-> Nil]
    /\ provider = Pending

\* No aggregation is under way.
IdleAggregator ==
    /\ response = [useCalendarAvailability |-> FALSE, enabledCalendars |-> {},
                   calendarOptions |-> NoCalendarOptions, manualAvailability |-> <<>>]
    /\ fetched = [c \in SubCalendars |-> NotFetched]
    /\ availability = NoAvailability

\* No request is under way.
IdleRequests ==
    /\ InitProvider({<<>>}, {FALSE})
    /\ InitRequests({}, {UnboundQuery}, "bind")

\* NReq requests of one account arrive together; the account's token may have
\* expired.
Init ==
    /\ InitProvider(SampleCalendars, BOOLEAN)
    /\ InitRequests(Req, SampleQueries, "bind")
    /\ IdleFactory
    /\ IdleAggregator

\* One request at its provider call, its token still valid, over every
\* calendar and every window: the handler from user.go:89 on.
InitCall ==
    /\ InitProvider(Calendars, {FALSE})
    /\ InitRequests({1}, {q \in Queries : q.bound}, "call")
    /\ IdleFactory
    /\ IdleAggregator

\* ------------------------------------------------------------- getCalendar
\* user.go:73-81: bind the query parameters; on failure gin has answered 400
\* and the handler returns.
Bind(r) ==
    /\ pc[r] = "bind"
    /\ IF query[r].bound
       THEN /\ pc' = [pc EXCEPT ![r] = "refresh"]
            /\ UNCHANGED result
       ELSE /\ pc' = [pc EXCEPT ![r] = "done"]
            /\ result' = [result EXCEPT ![r] = [NoResult EXCEPT !.status = StatusBadRequest]]
    /\ UNCHANGED <<factoryVars, aggVars, provVars, query, session, refreshResult, tokenAfter, sentToken, respKind>>

\* db.RefreshUserTokenIfNecessary, entry: nothing to do for a token that has
\* not expired; an account marked invalid answers AuthExpired at once; the
\* first caller of an expired account issues the refresh call, later callers
\* wait for it (spec.md 4.3).
RefreshEnter(r) ==
    /\ pc[r] = "refresh"
    /\ \/ /\ ~credential.valid
          /\ refreshResult' = [refreshResult EXCEPT ![r] = "AuthExpired"]
          /\ tokenAfter' = [tokenAfter EXCEPT ![r] = credential.token]
          /\ pc' = [pc EXCEPT ![r] = AfterRefresh("AuthExpired")]
          /\ UNCHANGED <<inflight, refreshCalls>>
       \/ /\ credential.valid /\ ~credential.expired
          /\ refreshResult' = [refreshResult EXCEPT ![r] = "ok"]
          /\ tokenAfter' = [tokenAfter EXCEPT ![r] = credential.token]
          /\ pc' = [pc EXCEPT ![r] = AfterRefresh("ok")]
          /\ UNCHANGED <<inflight, refreshCalls>>
       \/ /\ credential.valid /\ credential.expired /\ ~inflight
          /\ inflight' = TRUE
          /\ refreshCalls' = refreshCalls + 1
          /\ pc' = [pc EXCEPT ![r] = "refreshing"]
          /\ UNCHANGED <<refreshResult, tokenAfter>>
       \/ /\ credential.valid /\ credential.expired /\ inflight
          /\ pc' = [pc EXCEPT ![r] = "waiting"]
          /\ UNCHANGED <<inflight, refreshCalls, refreshResult, tokenAfter>>
    /\ UNCHANGED <<factoryVars, aggVars, calendar, credential, flightResult, query, session, sentToken, respKind, result>>

\* db.RefreshUserTokenIfNecessary, the refresh call returns: on success the
\* store holds a new access token, on failure the account is marked invalid
\* (spec.md 4.3).
RefreshComplete(r) ==
    /\ pc[r] = "refreshing"
    /\ \E ok \in BOOLEAN :
          /\ credential' = IF ok
                           THEN [token |-> credential.token + 1, expired |-> FALSE, valid |-> TRUE]
                           ELSE [credential EXCEPT !.valid = FALSE]
          /\ flightResult' = IF ok THEN "ok" ELSE "AuthExpired"
          /\ refreshResult' = [refreshResult EXCEPT ![r] = flightResult']
          /\ tokenAfter' = [tokenAfter EXCEPT ![r] = credential'.token]
          /\ pc' = [pc EXCEPT ![r] = AfterRefresh(flightResult')]
    /\ inflight' = FALSE
    /\ UNCHANGED <<factoryVars, aggVars, calendar, refreshCalls, query, session, sentToken, respKind, result>>

\* db.RefreshUserTokenIfNecessary, a waiter receives the result of the flight
\* it waited for (spec.md 4.3).
RefreshAwait(r) ==
    /\ pc[r] = "waiting"
    /\ ~inflight
    /\ refreshResult' = [refreshResult EXCEPT ![r] = flightResult]
    /\ tokenAfter' = [tokenAfter EXCEPT ![r] = credential.token]
    /\ pc' = [pc EXCEPT ![r] = AfterRefresh(flightResult)]
    /\ UNCHANGED <<factoryVars, aggVars, provVars, query, session, sentToken, respKind, result>>

\* user.go:89-104: the request is built and sent with the bearer token, and
\* the network fails: panic(err). (http.NewRequest itself cannot fail here: the
\* method is "GET" and the URL is a fixed prefix followed by two RFC 3339
\* timestamps, so the panic of user.go:97-99 has no step.)
CallNetworkFailure(r) ==
    /\ pc[r] = "call"
    /\ sentToken' = [sentToken EXCEPT ![r] = AccessTokenSent(r)]
    /\ respKind' = [respKind EXCEPT ![r] = "netfail"]
    /\ pc' = [pc EXCEPT ![r] = "panic"]
    /\ UNCHANGED <<factoryVars, aggVars, provVars, query, session, refreshResult, tokenAfter, result>>

\* user.go:89-124: the provider answers with a body that is no JSON document
\* of the Response shape: panic(err).
CallGarbage(r) ==
    /\ pc[r] = "call"
    /\ sentToken' = [sentToken EXCEPT ![r] = AccessTokenSent(r)]
    /\ respKind' = [respKind EXCEPT ![r] = "garbage"]
    /\ pc' = [pc EXCEPT ![r] = "panic"]
    /\ UNCHANGED <<factoryVars, aggVars, provVars, query, session, refreshResult, tokenAfter, result>>

\* user.go:89-146: the provider answers with a JSON document holding its items
\* and, when providerError, an error field. The rest of the handler touches
\* nothing shared, so it is one step.
CallAnswered(r) ==
    /\ pc[r] = "call"
    /\ sentToken' = [sentToken EXCEPT ![r] = AccessTokenSent(r)]
    /\ \E providerError \in BOOLEAN :
          /\ respKind' = [respKind EXCEPT ![r] = IF providerError THEN "error" ELSE "items"]
          /\ IF ~DecodeOk(calendar)
             THEN \* user.go:122-124
                  /\ pc' = [pc EXCEPT ![r] = "panic"]
                  /\ UNCHANGED result
             ELSE IF providerError
             THEN \* user.go:127-130
                  /\ pc' = [pc EXCEPT ![r] = "done"]
                  /\ result' = [result EXCEPT ![r] =
                        [status |-> StatusInternalServerError,
                         events |-> <<>>,
                         echoed |-> DecodedItems(calendar)]]
             ELSE \* user.go:132-145
                  /\ pc' = [pc EXCEPT ![r] = "done"]
                  /\ result' = [result EXCEPT ![r] =
                        [status |-> StatusOK,
                         events |-> FormatResponse(DecodedItems(calendar), query[r], <<>>),
                         echoed |-> <<>>]]
    /\ UNCHANGED <<factoryVars, aggVars, provVars, query, session, refreshResult, tokenAfter>>

Next ==
    \E r \in Req :
        \/ Bind(r)
        \/ RefreshEnter(r)
        \/ RefreshComplete(r)
        \/ RefreshAwait(r)
        \/ CallNetworkFailure(r)
        \/ CallGarbage(r)
        \/ CallAnswered(r)

Spec == Init /\ [][Next]_vars

NextCall ==
    \/ CallNetworkFailure(1)
    \/ CallGarbage(1)
    \/ CallAnswered(1)

SpecCall == InitCall /\ [][NextCall]_vars

\* ------------------------------------------------------ factory, in use
\* The factory is called on an account record of any content.
InitFactory ==
    /\ IdleRequests
    /\ IdleAggregator
    /\ account \in CalendarAccounts
    /\ provider = Pending

Resolve ==
    /\ provider = Pending
    /\ provider' = GetCalendarProvider(account)
    /\ UNCHANGED <<provVars, reqVars, account, aggVars>>

NextFactory == Resolve

SpecFactory == InitFactory /\ [][NextFactory]_vars

\* --------------------------------------------------- aggregator, in use
\* aggregateAvailability is called for a respondent's Response of any content.
InitAggregate ==
    /\ IdleRequests
    /\ IdleFactory
    /\ response \in Responses
    /\ fetched = [c \in SubCalendars |-> NotFetched]
    /\ availability = NoAvailability

\* The events call for an enabled sub-calendar is still to be made
ToFetch(c) ==
    /\ availability = NoAvailability
    /\ response.useCalendarAvailability
    /\ c \in response.enabledCalendars
    /\ fetched[c] = NotFetched

\* The adapter's events call for sub-calendar c succeeds
FetchEvents(c) ==
    /\ ToFetch(c)
    /\ \E events \in EventLists :
          fetched' = [fetched EXCEPT ![c] = [state |-> "ok", events |-> events]]
    /\ UNCHANGED <<provVars, reqVars, factoryVars, response, availability>>

\* The adapter's events call for sub-calendar c fails
FetchFails(c) ==
    /\ ToFetch(c)
    /\ fetched' = [fetched EXCEPT ![c] = Failed]
    /\ UNCHANGED <<provVars, reqVars, factoryVars, response, availability>>

\* Every call has returned: the merge
Aggregate ==
    /\ availability = NoAvailability
    /\ response.useCalendarAvailability =>
           \A c \in response.enabledCalendars : fetched[c] # NotFetched
    /\ availability' = aggregateAvailability(response, fetched)
    /\ UNCHANGED <<provVars, reqVars, factoryVars, response, fetched>>

NextAggregate ==
    \/ \E c \in SubCalendars : FetchEvents(c) \/ FetchFails(c)
    \/ Aggregate

SpecAggregate == InitAggregate /\ [][NextAggregate]_vars

\* ================================================================ claims
\* The requests that have been through the refresher
Refreshed == {r \in Req : refreshResult[r] # "none"}

\* The handler has returned or crashed
Ended(r) == pc[r] \in {"done", "panic"}

\* The handler has returned after writing an error answer
ErrorAnswer(r) ==
    pc[r] = "done" /\ result[r].status \in {StatusBadRequest, StatusInternalServerError}

\* The items of the decoded response that lie strictly inside the window
StrictlyInside(r) ==
    LET inside(it) == query[r].timeMin < it.start /\ it.end < query[r].timeMax
    IN  SelectSeq(DecodedItems(calendar), inside)

\* C1: a successful answer holds, in the provider's order, exactly the items
\* with timeMin strictly before their start and timeMax strictly after their
\* end, each with its own start and end (an item that touches or crosses a
\* boundary is left out, none is clipped).
C1_WindowFilter ==
    \A r \in Req :
        (pc[r] = "done" /\ result[r].status = StatusOK) =>
            result[r].events =
                [k \in 1..Len(StrictlyInside(r)) |-> CalendarEvent(StrictlyInside(r)[k])]

\* C1 witness: a successful answer that keeps one item of two, the other one
\* starting exactly at timeMin.
C1_Witness ==
    /\ pc[1] = "done"
    /\ result[1].status = StatusOK
    /\ Len(calendar) = 2
    /\ Len(result[1].events) = 1
    /\ \E k \in 1..2 : calendar[k].start = query[1].timeMin /\ calendar[k].end < query[1].timeMax

\* C2: for an account of an unsupported type the factory yields the explicit
\* error UnknownProviderType, never a nil provider.
C2_UnknownTypeIsError ==
    (provider # Pending /\ account.CalendarType \notin {GoogleCalendarType, AppleCalendarType}) =>
        (provider # NilProvider /\ provider.kind = "UnknownProviderType")

\* C3: requests against an account whose token has expired cause exactly one
\* refresh call, and every one of them either carries on with the refreshed
\* credential or ends with the same failure, AuthExpired.
C3_SingleFlight ==
    (Refreshed # {} /\ flightResult # "none") =>
        /\ refreshCalls = 1
        /\ \/ \A r \in Refreshed :
                 /\ refreshResult[r] = "ok"
                 /\ sentToken[r] # 0 => sentToken[r] = credential.token
           \/ \A r \in Refreshed :
                 /\ refreshResult[r] = "AuthExpired"
                 /\ sentToken[r] = 0
                 /\ Ended(r) => ErrorAnswer(r)

\* C4: a request whose refresh failed sends no provider call and ends with an
\* error answer, never with an event list.
C4_RefreshFailureEndsRequest ==
    \A r \in Req :
        refreshResult[r] = "AuthExpired" =>
            /\ sentToken[r] = 0
            /\ respKind[r] = "none"
            /\ Ended(r) => ErrorAnswer(r)

\* C5: a provider call that fails (network failure, undecodable body) ends the
\* request with an error answer, never in a panic.
C5_FailureIsAnError ==
    \A r \in Req :
        (\/ respKind[r] \in {"netfail", "garbage"}
         \/ respKind[r] \in {"error", "items"} /\ ~DecodeOk(calendar)) =>
            ErrorAnswer(r)

\* C6: when one item of the response does not decode and the others do, the
\* request still answers with the well-formed items that lie inside the window.
C6_MalformedItemIsSkipped ==
    \A r \in Req :
        (/\ respKind[r] = "items"
         /\ \E k \in 1..Len(calendar) :
               /\ ~calendar[k].dateTimeOk
               /\ \A j \in 1..Len(calendar) : j # k => calendar[j].dateTimeOk
         /\ Len(calendar) > 1) =>
            /\ pc[r] = "done"
            /\ result[r].status = StatusOK
            /\ LET wellFormed(it) == it.dateTimeOk
               IN  result[r].events =
                       FormatResponse(DecodedItems(SelectSeq(calendar, wellFormed)), query[r], <<>>)

\* The enabled sub-calendars whose events call failed
FailedCalls == {c \in response.enabledCalendars : fetched[c] = Failed}

\* The instants of the day that an ordered list of intervals covers
Covered(ivs) ==
    {t \in 0..(DayEnd - 1) : \E k \in 1..Len(ivs) : ivs[k].s <= t /\ t < ivs[k].e}

\* The instants that the events returned for the enabled sub-calendars in cs
\* make busy
BusyInstants(cs) ==
    UNION {Covered(fetched[c].events) : c \in cs \cap response.enabledCalendars}

C8_FreeIsSpanLessBusy ==
    (availability.kind = "result" /\ response.useCalendarAvailability) =>
        LET free == availability.available
        IN  /\ Covered(free) =
                  Covered(<<Span(response.calendarOptions)>>)
                      \ BusyInstants(response.enabledCalendars)
            /\ \A k \in 1..Len(free) : free[k].s < free[k].e
            /\ \A k \in 1..(Len(free) - 1) : free[k].e < free[k + 1].s
            /\ (/\ response.calendarOptions = [bounded |-> TRUE, s |-> 0, e |-> DayEnd]
                /\ response.enabledCalendars = {"calA"}
                /\ fetched["calA"].events = <<[s |-> 0, e |-> 1]>>) =>
                   free = <<[s |-> 1, e |-> DayEnd]>>

\* C8 witness: two enabled sub-calendars, each busy at another instant of the
\* working hours, and neither instant is reported free.
C8_Witness ==
    /\ availability.kind = "result"
    /\ response.calendarOptions.bounded
    /\ response.enabledCalendars = {"calA", "calB"}
    /\ fetched["calA"].events = <<[s |-> 0, e |-> 1]>>
    /\ fetched["calB"].events = <<[s |-> DayEnd - 1, e |-> DayEnd]>>
    /\ availability.available = <<[s |-> 1, e |-> DayEnd - 1]>>

\* C9: a request whose window has timeMin at or after timeMax never ends with
\* a successful event list.
C9_EmptyWindowRejected ==
    \A r \in Req :
        (pc[r] = "done" /\ query[r].bound /\ query[r].timeMin >= query[r].timeMax) =>
            result[r].status # StatusOK

\* C10: a provider call is sent only after the refresher has returned, and
\* its bearer token is the store's access token as of that return.
C10_TokenIsTheRefreshedOne ==
    \A r \in Req :
        sentToken[r] # 0 =>
            /\ refreshResult[r] # "none"
            /\ sentToken[r] = tokenAfter[r]

\* The invariant of spec.md 3 on a CalendarAccount of a supported type: the
\* bundle of that type is populated and the other one is not.
BundleMatchesType(acct) ==
    \/ /\ acct.CalendarType = GoogleCalendarType
       /\ acct.GoogleCalendarAuth # Nil
       /\ acct.AppleCalendarAuth = Nil
    \/ /\ acct.CalendarType = AppleCalendarType
       /\ acct.AppleCalendarAuth # Nil
       /\ acct.GoogleCalendarAuth = Nil

\* C11: for an account of a supported type whose one populated bundle is the
\* one of its type, the factory returns the adapter of exactly that type
\* holding that account's bundle of that type; it neither panics nor returns
\* nil.
C11_SupportedTypeGetsItsAdapter ==
    (provider # Pending /\ BundleMatchesType(account)) =>
        /\ account.CalendarType = GoogleCalendarType =>
              provider = [kind |-> "GoogleCalendar", auth |-> account.GoogleCalendarAuth]
        /\ account.CalendarType = AppleCalendarType =>
              provider = [kind |-> "AppleCalendar", auth |-> account.AppleCalendarAuth]
        /\ provider.kind \notin {"panic", "nil"}

\* C11 witness: an Apple account with its Apple bundle has been resolved to an
\* Apple adapter.
C11_Witness ==
    /\ account.CalendarType = AppleCalendarType
    /\ BundleMatchesType(account)
    /\ provider.kind = "AppleCalendar"
    /\ provider.auth = [token |-> MaxCred]

\* C12: every event of a successful answer starts strictly before it ends.
C12_StartBeforeEnd ==
    \A r \in Req :
        (pc[r] = "done" /\ result[r].status = StatusOK) =>
            \A k \in 1..Len(result[r].events) :
                result[r].events[k].startDate < result[r].events[k].endDate

\* C13: a provider response that carries an error field ends the request
\* with a 500 answer that carries the provider's response, and with no event
\* list.
C13_ProviderErrorIs500 ==
    \A r \in Req :
        respKind[r] = "error" =>
            /\ pc[r] = "done"
            /\ result[r].status = StatusInternalServerError
            /\ result[r].events = <<>>
            /\ result[r].echoed = DecodedItems(calendar)

\* The same for the responses that decode: the part of C13 that the handler
\* does keep (user.go:126-130).
DecodedProviderErrorIs500 ==
    \A r \in Req :
        (respKind[r] = "error" /\ DecodeOk(calendar)) =>
            /\ pc[r] = "done"
            /\ result[r].status = StatusInternalServerError
            /\ result[r].events = <<>>
            /\ result[r].echoed = DecodedItems(calendar)

====
